---- MODULE Spec2Model ----
(***************************************************************************)
(* A model of the tau interpreter core: the Pratt parser of                *)
(* parser/parser.go and the Times / Less evaluators of ast/times.go.       *)
(*                                                                         *)
(* The parser is a recursive-descent program over a token channel.  Its    *)
(* functions are operators that take the Parser struct as a record and     *)
(* return the struct they leave behind together with their result; the     *)
(* main loop of parse() is the state machine (one action per iteration).   *)
(* The evaluators are operators from (node, env) to (value, env).          *)
(***************************************************************************)
EXTENDS Integers, Sequences, FiniteSets, TLC

VARIABLES input, p, block, pc, node, env0, result, epc

vars == <<input, p, block, pc, node, env0, result, epc>>
pvars == <<input, p, block, pc>>
evars == <<node, env0, result, epc>>

(***************************************************************************)
(* Bounds of the model.                                                    *)
(***************************************************************************)
\* longest token stream (EOF excluded) enumerated over every token kind
MaxLen == 2
\* longest token stream (EOF excluded) enumerated over the small alphabet
MaxSmall == 4

(***************************************************************************)
(* item.Item and the token channel.                                        *)
(***************************************************************************)
Item(t, v) == [Typ |-> t, Val |-> v]

\* the lexeme of every token kind that has a fixed text
Lexeme ==
  "EOF" :> "" @@ "MINUS" :> "-" @@ "BANG" :> "!" @@ "TRUE" :> "true" @@
  "FALSE" :> "false" @@ "LPAREN" :> "(" @@ "RPAREN" :> ")" @@
  "LBRACE" :> "{" @@ "RBRACE" :> "}" @@ "LBRACKET" :> "[" @@
  "RBRACKET" :> "]" @@ "COMMA" :> "," @@ "SEMICOLON" :> ";" @@
  "IF" :> "if" @@ "ELSE" :> "else" @@ "FUNCTION" :> "fn" @@
  "RETURN" :> "return" @@ "EQ" :> "==" @@ "NOT_EQ" :> "!=" @@ "LT" :> "<" @@
  "GT" :> ">" @@ "LT_EQ" :> "<=" @@ "GT_EQ" :> ">=" @@ "AND" :> "&&" @@
  "OR" :> "||" @@ "PLUS" :> "+" @@ "SLASH" :> "/" @@ "ASTERISK" :> "*" @@
  "POWER" :> "**" @@ "ASSIGN" :> "=" @@ "PLUS_ASSIGN" :> "+=" @@
  "MINUS_ASSIGN" :> "-=" @@ "SLASH_ASSIGN" :> "/=" @@ "ASTERISK_ASSIGN" :> "*="

Tok(t) == Item(t, Lexeme[t])

\* the value a receive on the closed, drained channel yields: the zero Item
ZeroItem == Item("EOF", "")

\* i.Is(t)
Is(i, t) == i.Typ = t

\* <-items: the next token the lexer sent, or the zero Item once the lexer
\* has sent everything and closed the channel
Recv(ch) == IF ch # <<>> THEN Head(ch) ELSE ZeroItem
Rest(ch) == IF ch # <<>> THEN Tail(ch) ELSE <<>>

(***************************************************************************)
(* Precedence classes and the two tables.                                  *)
(***************************************************************************)
LOWEST == 0
ASSIGNMENT == 1
EQUALS == 2
LESSGREATER == 3
SUM == 4
PRODUCT == 5
PREFIX == 6
CALL == 7
INDEX == 8

precedences ==
  [ EQ |-> EQUALS, NOT_EQ |-> EQUALS,
    LT |-> LESSGREATER, GT |-> LESSGREATER, LT_EQ |-> LESSGREATER,
    GT_EQ |-> LESSGREATER,
    PLUS |-> SUM, MINUS |-> SUM, OR |-> SUM,
    SLASH |-> PRODUCT, ASTERISK |-> PRODUCT, POWER |-> PRODUCT, AND |-> PRODUCT,
    LPAREN |-> CALL, LBRACKET |-> INDEX,
    ASSIGN |-> ASSIGNMENT, PLUS_ASSIGN |-> ASSIGNMENT,
    MINUS_ASSIGN |-> ASSIGNMENT, SLASH_ASSIGN |-> ASSIGNMENT,
    ASTERISK_ASSIGN |-> ASSIGNMENT ]

\* the keys registerPrefix is called with
prefixParsers ==
  { "IDENT", "INT", "FLOAT", "STRING", "MINUS", "BANG", "TRUE", "FALSE",
    "LPAREN", "IF", "FUNCTION", "LBRACKET" }

\* the keys registerInfix is called with (POWER is commented out)
infixParsers ==
  { "EQ", "NOT_EQ", "LT", "GT", "LT_EQ", "GT_EQ", "AND", "OR", "PLUS",
    "MINUS", "SLASH", "ASTERISK", "ASSIGN", "PLUS_ASSIGN", "MINUS_ASSIGN",
    "SLASH_ASSIGN", "ASTERISK_ASSIGN", "LPAREN", "LBRACKET" }

(***************************************************************************)
(* AST nodes.  NilNode is the nil ast.Node.                                *)
(***************************************************************************)
NilNode == [kind |-> "nil"]
IsNil(n) == n.kind = "nil"

Binary(k, l, r) == [kind |-> k, l |-> l, r |-> r]
Unary(k, x) == [kind |-> k, x |-> x]

NewTimes(l, r) == Binary("Times", l, r)
NewLess(l, r) == Binary("Less", l, r)

NewIdentifier(v) == [kind |-> "Identifier", name |-> v]
NewInteger(i) == [kind |-> "Integer", i |-> i]
NewFloat(f) == [kind |-> "Float", f |-> f]
NewString(s) == [kind |-> "String", s |-> s]
NewBoolean(b) == [kind |-> "Boolean", b |-> b]
NewPrefixMinus(x) == Unary("PrefixMinus", x)
NewBang(x) == Unary("Bang", x)
NewReturn(v) == Unary("Return", v)
NewIfExpr(cond, body, alt) == [kind |-> "If", cond |-> cond, body |-> body, alt |-> alt]
NewFunction(params, body) == [kind |-> "Function", params |-> params, body |-> body]
NewCall(fn, args) == [kind |-> "Call", fn |-> fn, args |-> args]
NewList(nodes) == [kind |-> "List", elems |-> nodes]
NewIndex(list, expr) == [kind |-> "Index", list |-> list, index |-> expr]
NewBlock == [kind |-> "Block", stmts |-> <<>>]
Add(b, s) == [b EXCEPT !.stmts = Append(@, s)]

\* strconv.ParseInt(val, 0, 64) and strconv.ParseFloat(val, 64) on the
\* literals of the model: ok is err == nil
ParseInt(val) ==
  CASE val = "1" -> [ok |-> TRUE, i |-> 1]
    [] val = "2" -> [ok |-> TRUE, i |-> 2]
    [] val = "3" -> [ok |-> TRUE, i |-> 3]
    [] val = "0x10" -> [ok |-> TRUE, i |-> 16]
    [] OTHER -> [ok |-> FALSE, i |-> 0]

ParseFloat(val) ==
  CASE val = "1.5" -> [ok |-> TRUE, f |-> "1.5"]
    [] OTHER -> [ok |-> FALSE, f |-> "0"]

(***************************************************************************)
(* The Parser struct: cur, peek, items (what is left in the channel) and   *)
(* errs.  nrecv counts the receives performed on the channel and semi      *)
(* records that an infix parser was invoked while cur was a `;`; both are  *)
(* history fields the code does not have.                                  *)
(***************************************************************************)
R(n, q) == [node |-> n, p |-> q]

next(q) ==
  [q EXCEPT !.cur = q.peek, !.peek = Recv(q.items), !.items = Rest(q.items),
            !.nrecv = @ + 1]

newParser(items) ==
  [ cur |-> Recv(items), peek |-> Recv(Rest(items)), items |-> Rest(Rest(items)),
    errs |-> <<>>, nrecv |-> 2, semi |-> FALSE ]

Sprintf(f, a) == [fmt |-> f, args |-> a]

\* peekError that forgets to append to p.errs
peekError_Mut(q, t) == q

peekError(q, t) ==
  [q EXCEPT !.errs = Append(@,
     Sprintf("expected next item to be %v, got %v instead", <<t, q.peek.Typ>>))]

expectPeek(q, t) ==
  IF Is(q.peek, t) THEN [ok |-> TRUE, p |-> next(q)]
  ELSE [ok |-> FALSE, p |-> peekError(q, t)]

peekPrecedence(q) ==
  IF q.peek.Typ \in DOMAIN precedences THEN precedences[q.peek.Typ] ELSE LOWEST

\* precedence() that always answers LOWEST
precedence_Mut(q) == LOWEST

precedence(q) ==
  IF q.cur.Typ \in DOMAIN precedences THEN precedences[q.cur.Typ] ELSE LOWEST

\* noParsePrefixFnError that forgets to append to p.errs
noParsePrefixFnError_Mut(q, t) == q

noParsePrefixFnError(q, t) ==
  [q EXCEPT !.errs = Append(@,
     Sprintf("no parse prefix function for '%s' found", <<t>>))]

\* LET x == v IN F(x), with v evaluated once however often F uses x
Bind(v, F(_)) == CHOOSE y \in { F(x) : x \in {v} } : TRUE

RECURSIVE parseExpr(_, _), parseStatement(_), parseIfExpr(_)

parseIdentifier(q) == R(NewIdentifier(q.cur.Val), q)

parseInteger(q) ==
  LET r == ParseInt(q.cur.Val)
  IN IF ~r.ok
     THEN R(NilNode, [q EXCEPT !.errs = Append(@,
              Sprintf("unable to parse %q as integer", <<q.cur.Val>>))])
     ELSE R(NewInteger(r.i), q)

parseFloat(q) ==
  LET r == ParseFloat(q.cur.Val)
  IN IF ~r.ok
     THEN R(NilNode, [q EXCEPT !.errs = Append(@,
              Sprintf("unable to parse %q as float", <<q.cur.Val>>))])
     ELSE R(NewFloat(r.f), q)

parseString(q) == R(NewString(q.cur.Val), q)

parseBoolean(q) == R(NewBoolean(Is(q.cur, "TRUE")), q)

parsePrefixMinus(q) ==
  Bind(parseExpr(PREFIX, next(q)), LAMBDA e : R(NewPrefixMinus(e.node), e.p))

parseBang(q) ==
  Bind(parseExpr(PREFIX, next(q)), LAMBDA e : R(NewBang(e.node), e.p))

parseGroupedExpr(q) ==
  Bind(parseExpr(LOWEST, next(q)), LAMBDA e :
  Bind(expectPeek(e.p, "RPAREN"), LAMBDA x :
    IF ~x.ok THEN R(NilNode, x.p) ELSE R(e.node, x.p)))

\* the loop of parseBlock
RECURSIVE parseBlockLoop(_, _)
parseBlockLoop(b, q) ==
  IF ~Is(q.cur, "RBRACE") /\ ~Is(q.cur, "EOF")
  THEN Bind(parseStatement(q), LAMBDA s :
         Bind(next(s.p), LAMBDA q1 :
           parseBlockLoop(IF ~IsNil(s.node) THEN Add(b, s.node) ELSE b, q1)))
  ELSE R(b, q)

parseBlock(q) == Bind(next(q), LAMBDA q1 : parseBlockLoop(NewBlock, q1))

\* the else part of parseIfExpr, after cond and body
parseIfAlt(cond, body, q) ==
  IF Is(q.peek, "ELSE")
  THEN Bind(next(q), LAMBDA q1 :
         IF Is(q1.peek, "IF")
         THEN Bind(parseIfExpr(next(q1)), LAMBDA a :
                R(NewIfExpr(cond, body, a.node), a.p))
         ELSE Bind(expectPeek(q1, "LBRACE"), LAMBDA y :
                IF ~y.ok THEN R(NilNode, y.p)
                ELSE Bind(parseBlock(y.p), LAMBDA a :
                       R(NewIfExpr(cond, body, a.node), a.p))))
  ELSE R(NewIfExpr(cond, body, NilNode), q)

parseIfExpr(q) ==
  Bind(parseExpr(LOWEST, next(q)), LAMBDA c :
  Bind(expectPeek(c.p, "LBRACE"), LAMBDA x :
    IF ~x.ok THEN R(NilNode, x.p)
    ELSE Bind(parseBlock(x.p), LAMBDA body :
           parseIfAlt(c.node, body.node, body.p))))

\* the loop of parseNodeList
RECURSIVE parseNodeListLoop(_, _)
parseNodeListLoop(list, q) ==
  IF Is(q.peek, "COMMA")
  THEN Bind(parseExpr(LOWEST, next(next(q))), LAMBDA e :
         parseNodeListLoop(Append(list, e.node), e.p))
  ELSE [list |-> list, p |-> q]

parseNodeList(q, end) ==
  IF Is(q.peek, end) THEN [list |-> <<>>, p |-> next(q)]
  ELSE Bind(parseExpr(LOWEST, next(q)), LAMBDA e :
       Bind(parseNodeListLoop(<<e.node>>, e.p), LAMBDA l :
       Bind(expectPeek(l.p, end), LAMBDA x :
         IF ~x.ok THEN [list |-> <<>>, p |-> x.p]
         ELSE [list |-> l.list, p |-> x.p])))

parseList(q) ==
  Bind(parseNodeList(q, "RBRACKET"), LAMBDA l : R(NewList(l.list), l.p))

\* the loop of parseFunctionParams
RECURSIVE parseFunctionParamsLoop(_, _)
parseFunctionParamsLoop(ret, q) ==
  IF Is(q.peek, "COMMA")
  THEN Bind(next(next(q)), LAMBDA q2 :
         parseFunctionParamsLoop(Append(ret, q2.cur.Val), q2))
  ELSE [list |-> ret, p |-> q]

parseFunctionParams(q) ==
  IF Is(q.peek, "RPAREN") THEN [list |-> <<>>, p |-> next(q)]
  ELSE Bind(next(q), LAMBDA q1 :
       Bind(parseFunctionParamsLoop(<<q1.cur.Val>>, q1), LAMBDA l :
       Bind(expectPeek(l.p, "RPAREN"), LAMBDA x :
         IF ~x.ok THEN [list |-> <<>>, p |-> x.p]
         ELSE [list |-> l.list, p |-> x.p])))

parseFunction(q) ==
  Bind(expectPeek(q, "LPAREN"), LAMBDA x :
    IF ~x.ok THEN R(NilNode, x.p)
    ELSE Bind(parseFunctionParams(x.p), LAMBDA params :
         Bind(expectPeek(params.p, "LBRACE"), LAMBDA y :
           IF ~y.ok THEN R(NilNode, y.p)
           ELSE Bind(parseBlock(y.p), LAMBDA body :
                  R(NewFunction(params.list, body.node), body.p)))))

\* the shape shared by the seventeen binary infix parsers: the right operand
\* is parsed with the precedence of the operator, which is p.cur
BinaryInfix(k, left, q) ==
  Bind(precedence(q), LAMBDA prec :
  Bind(parseExpr(prec, next(q)), LAMBDA e : R(Binary(k, left, e.node), e.p)))

parsePlus(left, q) == BinaryInfix("Plus", left, q)
parseMinus(left, q) == BinaryInfix("Minus", left, q)
parseAsterisk(left, q) ==
  Bind(precedence(q), LAMBDA prec :
  Bind(parseExpr(prec, next(q)), LAMBDA e : R(NewTimes(left, e.node), e.p)))
parseSlash(left, q) == BinaryInfix("Divide", left, q)
parseEquals(left, q) == BinaryInfix("Equals", left, q)
parseNotEquals(left, q) == BinaryInfix("NotEquals", left, q)
parseLess(left, q) ==
  Bind(precedence(q), LAMBDA prec :
  Bind(parseExpr(prec, next(q)), LAMBDA e : R(NewLess(left, e.node), e.p)))
parseGreater(left, q) == BinaryInfix("Greater", left, q)
parseLessEq(left, q) == BinaryInfix("LessEq", left, q)
parseGreaterEq(left, q) == BinaryInfix("GreaterEq", left, q)
parseAnd(left, q) == BinaryInfix("And", left, q)
parseOr(left, q) == BinaryInfix("Or", left, q)
parseAssign(left, q) == BinaryInfix("Assign", left, q)
parsePlusAssign(left, q) == BinaryInfix("PlusAssign", left, q)
parseMinusAssign(left, q) == BinaryInfix("MinusAssign", left, q)
parseSlashAssign(left, q) == BinaryInfix("DivideAssign", left, q)
parseAsteriskAssign(left, q) == BinaryInfix("TimesAssign", left, q)

parseCall(fn, q) ==
  Bind(parseNodeList(q, "RPAREN"), LAMBDA l : R(NewCall(fn, l.list), l.p))

parseIndex(list, q) ==
  Bind(parseExpr(LOWEST, next(q)), LAMBDA e :
  Bind(expectPeek(e.p, "RBRACKET"), LAMBDA x :
    IF ~x.ok THEN R(NilNode, x.p) ELSE R(NewIndex(list, e.node), x.p)))

\* p.prefixParsers[t]()
PrefixFn(t, q) ==
  CASE t = "IDENT" -> parseIdentifier(q)
    [] t = "INT" -> parseInteger(q)
    [] t = "FLOAT" -> parseFloat(q)
    [] t = "STRING" -> parseString(q)
    [] t = "MINUS" -> parsePrefixMinus(q)
    [] t = "BANG" -> parseBang(q)
    [] t \in {"TRUE", "FALSE"} -> parseBoolean(q)
    [] t = "LPAREN" -> parseGroupedExpr(q)
    [] t = "IF" -> parseIfExpr(q)
    [] t = "FUNCTION" -> parseFunction(q)
    [] t = "LBRACKET" -> parseList(q)

\* p.infixParsers[t](left)
InfixFn(t, left, q) ==
  CASE t = "EQ" -> parseEquals(left, q)
    [] t = "NOT_EQ" -> parseNotEquals(left, q)
    [] t = "LT" -> parseLess(left, q)
    [] t = "GT" -> parseGreater(left, q)
    [] t = "LT_EQ" -> parseLessEq(left, q)
    [] t = "GT_EQ" -> parseGreaterEq(left, q)
    [] t = "AND" -> parseAnd(left, q)
    [] t = "OR" -> parseOr(left, q)
    [] t = "PLUS" -> parsePlus(left, q)
    [] t = "MINUS" -> parseMinus(left, q)
    [] t = "SLASH" -> parseSlash(left, q)
    [] t = "ASTERISK" -> parseAsterisk(left, q)
    [] t = "ASSIGN" -> parseAssign(left, q)
    [] t = "PLUS_ASSIGN" -> parsePlusAssign(left, q)
    [] t = "MINUS_ASSIGN" -> parseMinusAssign(left, q)
    [] t = "SLASH_ASSIGN" -> parseSlashAssign(left, q)
    [] t = "ASTERISK_ASSIGN" -> parseAsteriskAssign(left, q)
    [] t = "LPAREN" -> parseCall(left, q)
    [] t = "LBRACKET" -> parseIndex(left, q)

\* the history field semi: the infix parser of q.peek is about to be applied
\* to an expression that ended before the `;` that is q.cur
NoteInfix(q) == IF Is(q.cur, "SEMICOLON") THEN [q EXCEPT !.semi = TRUE] ELSE q

\* the for loop of parseExpr
RECURSIVE parseExprLoop(_, _, _)

\* the loop with `precedence <= p.peekPrecedence()`
parseExprLoop_Mut(prec, leftExp, q) ==
  IF ~Is(q.peek, "SEMICOLON") /\ prec <= peekPrecedence(q)
  THEN IF q.peek.Typ \in infixParsers
       THEN Bind(next(NoteInfix(q)), LAMBDA q1 :
            Bind(InfixFn(q.peek.Typ, leftExp, q1), LAMBDA r :
              parseExprLoop(prec, r.node, r.p)))
       ELSE R(leftExp, q)
  ELSE R(leftExp, q)

parseExprLoop(prec, leftExp, q) ==
  IF ~Is(q.peek, "SEMICOLON") /\ prec < peekPrecedence(q)
  THEN IF q.peek.Typ \in infixParsers
       THEN Bind(next(NoteInfix(q)), LAMBDA q1 :
            Bind(InfixFn(q.peek.Typ, leftExp, q1), LAMBDA r :
              parseExprLoop(prec, r.node, r.p)))
       ELSE R(leftExp, q)
  ELSE R(leftExp, q)

parseExpr(precedence0, q0) ==
  Bind(precedence0, LAMBDA prec :
  Bind(q0, LAMBDA q :
    IF q.cur.Typ \in prefixParsers
    THEN Bind(PrefixFn(q.cur.Typ, q), LAMBDA pre :
         Bind(parseExprLoop(prec, pre.node, pre.p), LAMBDA lp :
           IF Is(lp.p.peek, "SEMICOLON") THEN R(lp.node, next(lp.p)) ELSE lp))
    ELSE R(NilNode, noParsePrefixFnError(q, q.cur.Typ))))

parseReturn(q) ==
  Bind(parseExpr(LOWEST, next(q)), LAMBDA e :
    IF Is(e.p.peek, "SEMICOLON") THEN R(NewReturn(e.node), next(e.p))
    ELSE R(NewReturn(e.node), e.p))

parseStatement(q) ==
  IF Is(q.cur, "RETURN") THEN parseReturn(q) ELSE parseExpr(LOWEST, q)

(***************************************************************************)
(* Token streams the lexer may send: the tokens followed by one EOF.       *)
(***************************************************************************)
ident(v) == Item("IDENT", v)
int(v) == Item("INT", v)

\* one item of every kind, and the literals strconv rejects
AllItems ==
  { Tok(t) : t \in DOMAIN Lexeme \ {"EOF"} } \cup
  { ident("a"), int("1"), int("99999999999999999999"), Item("FLOAT", "1.5"),
    Item("FLOAT", "1e999"), Item("STRING", "s") }

SmallItems ==
  { ident("a"), Tok("MINUS"), Tok("PLUS"), Tok("ASTERISK"), Tok("SEMICOLON"),
    Tok("LPAREN"), Tok("RPAREN"), Tok("COMMA") }

SeqsUpTo(S, n) == UNION { [1..k -> S] : k \in 0..n }

Operands ==
  { <<ident("a"), ident("b"), ident("c")>>, <<int("1"), int("2"), int("3")>> }

\* a t1 b t2 c
Chain(o, t1, t2) == <<o[1], Tok(t1), o[2], Tok(t2), o[3]>>
\* a t1 b ; t2 c
SemiChain(o, t1, t2) == <<o[1], Tok(t1), o[2], Tok("SEMICOLON"), Tok(t2), o[3]>>
\* a t b
Pair(o, t) == <<o[1], Tok(t), o[2]>>

Programs ==
  LET a == ident("a")  b == ident("b")  c == ident("c")
      i1 == int("1")  i2 == int("2")  i3 == int("3")
  IN { <<Tok("IF"), a, Tok("LBRACE"), b, Tok("RBRACE"), Tok("ELSE"),
         Tok("LBRACE"), c, Tok("RBRACE")>>,
       <<Tok("IF"), a, Tok("LBRACE"), b, Tok("RBRACE"), Tok("ELSE"),
         Tok("IF"), c, Tok("LBRACE"), a, Tok("RBRACE")>>,
       <<Tok("FUNCTION"), Tok("LPAREN"), a, Tok("COMMA"), b, Tok("RPAREN"),
         Tok("LBRACE"), a, Tok("PLUS"), b, Tok("RBRACE"), Tok("LPAREN"), i1,
         Tok("COMMA"), i2, Tok("RPAREN")>>,
       <<Tok("LBRACKET"), i1, Tok("COMMA"), i2, Tok("COMMA"), i3,
         Tok("RBRACKET"), Tok("LBRACKET"), i1, Tok("RBRACKET")>>,
       <<Tok("RETURN"), a, Tok("SEMICOLON"), Tok("RETURN"), Tok("SEMICOLON")>>,
       <<a, Tok("ASSIGN"), b, Tok("ASTERISK"), Tok("LPAREN"), i1, Tok("PLUS"),
         i2, Tok("RPAREN"), Tok("SEMICOLON")>>,
       <<Tok("BANG"), Tok("TRUE"), Tok("EQ"), Tok("FALSE"), Tok("AND"),
         Tok("MINUS"), a>>,
       <<Item("STRING", "s"), Tok("PLUS"), Item("FLOAT", "1.5"), Tok("LT"),
         int("0x10")>> }

\* every prefix of a program, and every program with one token replaced
Variants(s) ==
  { SubSeq(s, 1, k) : k \in 0..Len(s) } \cup
  { [s EXCEPT ![k] = x] : k \in 1..Len(s), x \in AllItems }

Bodies ==
  SeqsUpTo(AllItems, MaxLen) \cup SeqsUpTo(SmallItems, MaxSmall) \cup
  { Chain(o, t1, t2) : o \in Operands, t1 \in DOMAIN precedences,
                       t2 \in DOMAIN precedences } \cup
  { SemiChain(o, t1, t2) : o \in Operands, t1 \in infixParsers,
                           t2 \in infixParsers } \cup
  { Pair(o, t) : o \in Operands, t \in DOMAIN precedences } \cup
  UNION { Variants(s) : s \in Programs }

Streams == { Append(s, Tok("EOF")) : s \in Bodies }

(***************************************************************************)
(* Parse(input): the lexer's channel, newParser, the loop of parse().      *)
(***************************************************************************)
\* before newParser runs: the channel holds what the lexer sends
NoParser(items) ==
  [ cur |-> ZeroItem, peek |-> ZeroItem, items |-> items, errs |-> <<>>,
    nrecv |-> 0, semi |-> FALSE ]

PInit ==
  /\ input \in Streams
  /\ p = NoParser(input)
  /\ block = NewBlock
  /\ pc = "new"

PIdle ==
  /\ input = <<>>
  /\ p = NoParser(<<>>)
  /\ block = NewBlock
  /\ pc = "idle"

NewParser ==
  /\ pc = "new"
  /\ p' = newParser(p.items)
  /\ pc' = "loop"
  /\ UNCHANGED <<input, block>>

\* one iteration of the loop of parse()
ParseLoop ==
  /\ pc = "loop"
  /\ ~Is(p.cur, "EOF")
  /\ \E s \in {parseStatement(p)} :
       /\ block' = IF ~IsNil(s.node) THEN Add(block, s.node) ELSE block
       /\ p' = next(s.p)
  /\ UNCHANGED <<input, pc>>

\* parse() returns block
ParseReturn ==
  /\ pc = "loop"
  /\ Is(p.cur, "EOF")
  /\ pc' = "done"
  /\ UNCHANGED <<input, p, block>>

(***************************************************************************)
(* Runtime values (package obj).  An Integer is an int64, kept as its      *)
(* eight bytes, least significant first, in two's complement; a Float is   *)
(* NaN or the finite non-zero number m * 2^e with m odd, for which the     *)
(* float64 product of the values of the model is exact.                    *)
(***************************************************************************)
Type(o) == o.kind
isError(o) == Type(o) = "ERROR"

obj_NewInteger(v) == [kind |-> "INT", i |-> v]
obj_NewFloat(v) == [kind |-> "FLOAT", f |-> v]
obj_NewError(f, a) == [kind |-> "ERROR", fmt |-> f, args |-> a]
obj_True == [kind |-> "BOOL", b |-> TRUE]
obj_False == [kind |-> "BOOL", b |-> FALSE]
obj_ParseBool(b) == IF b THEN obj_True ELSE obj_False

\* a[1]*b[k] + a[2]*b[k-1] + ... + a[i]*b[k+1-i]
RECURSIVE Column(_, _, _, _)
Column(a, b, k, i) ==
  IF i = 0 THEN 0 ELSE a[i] * b[k + 1 - i] + Column(a, b, k, i - 1)

RECURSIVE MulFrom(_, _, _, _)
MulFrom(a, b, k, carry) ==
  IF k > Len(a) THEN <<>>
  ELSE LET t == Column(a, b, k, k) + carry
       IN <<t % 256>> \o MulFrom(a, b, k + 1, t \div 256)

\* l.Val() * r.Val() on int64: the product modulo 2^64
Mul64(a, b) == MulFrom(a, b, 1, 0)

Negative64(a) == a[Len(a)] >= 128

RECURSIVE UnsignedLess(_, _, _)
UnsignedLess(a, b, k) ==
  IF k = 0 THEN FALSE
  ELSE IF a[k] # b[k] THEN a[k] < b[k] ELSE UnsignedLess(a, b, k - 1)

\* l.Val() < r.Val() on int64
Less64(a, b) ==
  IF Negative64(a) # Negative64(b) THEN Negative64(a)
  ELSE UnsignedLess(a, b, Len(a))

Flt(m, e) == [nan |-> FALSE, m |-> m, e |-> e]
NaN == [nan |-> TRUE, m |-> 0, e |-> 0]

RECURSIVE Pow2(_)
Pow2(n) == IF n = 0 THEN 1 ELSE 2 * Pow2(n - 1)

\* l.Val() * r.Val() on float64
MulFloat(x, y) == IF x.nan \/ y.nan THEN NaN ELSE Flt(x.m * y.m, x.e + y.e)

\* l.Val() < r.Val() on float64: false when either is NaN
LessFloat(x, y) ==
  IF x.nan \/ y.nan THEN FALSE
  ELSE LET lo == IF x.e < y.e THEN x.e ELSE y.e
       IN x.m * Pow2(x.e - lo) < y.m * Pow2(y.e - lo)

(***************************************************************************)
(* The environment, and the operand nodes Times and Less are built on.     *)
(***************************************************************************)
\* an environment maps every name to its value, or to NilNode when the
\* name is not bound
Bound(env, name) == ~IsNil(env[name])
Get(env, name) == env[name]
Set(env, name, v) == [env EXCEPT ![name] = v]
NewEnv == [x |-> NilNode, y |-> NilNode, u |-> NilNode]

Ev(v, env) == [val |-> v, env |-> env]

\* a node without side effects that evaluates to v (a literal, for one)
Const(v) == [kind |-> "Const", val |-> v]
NewAssign(l, r) == Binary("Assign", l, r)

RECURSIVE Eval(_, _)

IdentifierEval(n, env) ==
  IF Bound(env, n.name) THEN Ev(Get(env, n.name), env)
  ELSE Ev(obj_NewError("identifier not found: %s", [name |-> n.name]), env)

AssignEval(n, env) ==
  LET r == Eval(n.r, env)
  IN IF isError(r.val) THEN r
     ELSE IF n.l.kind = "Identifier" THEN Ev(r.val, Set(r.env, n.l.name, r.val))
     ELSE Ev(obj_NewError("cannot assign to %v", [target |-> n.l]), r.env)

\* Times.Eval with the two isError tests in the other order
TimesEval_Mut(t, env) ==
  LET l == Eval(t.l, env)
      r == Eval(t.r, l.env)
      left == l.val
      right == r.val
  IN IF isError(right) THEN Ev(right, r.env)
     ELSE IF isError(left) THEN Ev(left, r.env)
     ELSE IF Type(left) # Type(right)
     THEN Ev(obj_NewError("invalid operation %v * %v (mismatched types %v and %v)",
                          [l |-> left, r |-> right, lt |-> Type(left),
                           rt |-> Type(right)]), r.env)
     ELSE CASE Type(left) = "INT" -> Ev(obj_NewInteger(Mul64(left.i, right.i)), r.env)
            [] Type(left) = "FLOAT" -> Ev(obj_NewFloat(MulFloat(left.f, right.f)), r.env)
            [] OTHER -> Ev(obj_NewError("unsupported operator '*' for type %v",
                                        [t |-> Type(left)]), r.env)

\* Times.Eval: both operands are evaluated before either result is looked at
TimesEval(t, env) ==
  LET l == Eval(t.l, env)
      r == Eval(t.r, l.env)
      left == l.val
      right == r.val
  IN IF isError(left) THEN Ev(left, r.env)
     ELSE IF isError(right) THEN Ev(right, r.env)
     ELSE IF Type(left) # Type(right)
     THEN Ev(obj_NewError("invalid operation %v * %v (mismatched types %v and %v)",
                          [l |-> left, r |-> right, lt |-> Type(left),
                           rt |-> Type(right)]), r.env)
     ELSE CASE Type(left) = "INT" -> Ev(obj_NewInteger(Mul64(left.i, right.i)), r.env)
            [] Type(left) = "FLOAT" -> Ev(obj_NewFloat(MulFloat(left.f, right.f)), r.env)
            [] OTHER -> Ev(obj_NewError("unsupported operator '*' for type %v",
                                        [t |-> Type(left)]), r.env)

\* Less.Eval without the test for operands of different types
LessEval_Mut(t, env) ==
  LET l == Eval(t.l, env)
      r == Eval(t.r, l.env)
      left == l.val
      right == r.val
  IN IF isError(left) THEN Ev(left, r.env)
     ELSE IF isError(right) THEN Ev(right, r.env)
     ELSE CASE Type(left) = "INT" /\ Type(right) = "INT" ->
                 Ev(obj_ParseBool(Less64(left.i, right.i)), r.env)
            [] Type(left) = "FLOAT" /\ Type(right) = "FLOAT" ->
                 Ev(obj_ParseBool(LessFloat(left.f, right.f)), r.env)
            [] OTHER -> Ev(obj_NewError("unsupported operator '<' for type %v",
                                        [t |-> Type(left)]), r.env)

\* Less.Eval
LessEval(t, env) ==
  LET l == Eval(t.l, env)
      r == Eval(t.r, l.env)
      left == l.val
      right == r.val
  IN IF isError(left) THEN Ev(left, r.env)
     ELSE IF isError(right) THEN Ev(right, r.env)
     ELSE IF Type(left) # Type(right)
     THEN Ev(obj_NewError("invalid operation %v < %v (mismatched types %v and %v)",
                          [l |-> left, r |-> right, lt |-> Type(left),
                           rt |-> Type(right)]), r.env)
     ELSE CASE Type(left) = "INT" -> Ev(obj_ParseBool(Less64(left.i, right.i)), r.env)
            [] Type(left) = "FLOAT" -> Ev(obj_ParseBool(LessFloat(left.f, right.f)), r.env)
            [] OTHER -> Ev(obj_NewError("unsupported operator '<' for type %v",
                                        [t |-> Type(left)]), r.env)

\* n.Eval(env)
Eval(n, env) ==
  CASE n.kind = "Const" -> Ev(n.val, env)
    [] n.kind = "Identifier" -> IdentifierEval(n, env)
    [] n.kind = "Assign" -> AssignEval(n, env)
    [] n.kind = "Times" -> TimesEval(n, env)
    [] n.kind = "Less" -> LessEval(n, env)

(***************************************************************************)
(* The nodes and environments the evaluators are run on.                   *)
(***************************************************************************)
I64_2 == <<2, 0, 0, 0, 0, 0, 0, 0>>
I64_3 == <<3, 0, 0, 0, 0, 0, 0, 0>>
I64_6 == <<6, 0, 0, 0, 0, 0, 0, 0>>
\* -1, 2^32 and the least int64
I64_m1 == <<255, 255, 255, 255, 255, 255, 255, 255>>
I64_2p32 == <<0, 0, 0, 0, 1, 0, 0, 0>>
I64_min == <<0, 0, 0, 0, 0, 0, 0, 128>>

IntVals == { I64_2, I64_3, I64_m1, I64_2p32, I64_min }
\* 1.5, -0.5, 3.0 and NaN
FloatVals == { Flt(3, -1), Flt(-1, -1), Flt(3, 0), NaN }

Values ==
  { obj_NewInteger(v) : v \in IntVals } \cup
  { obj_NewFloat(v) : v \in FloatVals } \cup
  { [kind |-> "STRING", s |-> "s"], obj_True, [kind |-> "NULL"],
    [kind |-> "LIST", elems |-> <<>>], [kind |-> "FUNCTION", params |-> <<>>] }

Env0s ==
  { NewEnv, Set(NewEnv, "x", obj_NewInteger(I64_3)),
    Set(NewEnv, "x", obj_NewFloat(Flt(3, -1))) }

Leaves ==
  { Const(v) : v \in Values } \cup { NewIdentifier("x"), NewIdentifier("u") }

\* an operand: a leaf, an assignment of a leaf to y, or a product or
\* comparison of two identifiers or small constants
Kids ==
  Leaves \cup
  { NewAssign(NewIdentifier("y"), k) :
      k \in {Const(obj_NewInteger(I64_2)), NewIdentifier("u"), NewIdentifier("x")} } \cup
  { NewTimes(NewIdentifier("x"), NewIdentifier("u")),
    NewTimes(NewIdentifier("x"), NewIdentifier("x")),
    NewLess(NewIdentifier("u"), NewAssign(NewIdentifier("y"), NewIdentifier("x"))),
    NewLess(Const(obj_NewInteger(I64_2)), NewIdentifier("x")) }

Tops ==
  { NewTimes(l, r) : l \in Kids, r \in Kids } \cup
  { NewLess(l, r) : l \in Kids, r \in Kids }

NoResult == Ev(NilNode, NewEnv)

EInit ==
  /\ node \in Tops
  /\ env0 \in Env0s
  /\ result = NoResult
  /\ epc = "ready"

EIdle ==
  /\ node = NilNode
  /\ env0 = NewEnv
  /\ result = NoResult
  /\ epc = "idle"

\* node.Eval(env) for a Times node
EvalTimes ==
  /\ epc = "ready"
  /\ node.kind = "Times"
  /\ result' = TimesEval(node, env0)
  /\ epc' = "done"
  /\ UNCHANGED <<node, env0>>

\* node.Eval(env) for a Less node
EvalLess ==
  /\ epc = "ready"
  /\ node.kind = "Less"
  /\ result' = LessEval(node, env0)
  /\ epc' = "done"
  /\ UNCHANGED <<node, env0>>

Init == PInit /\ EIdle

Next ==
  \/ NewParser /\ UNCHANGED evars
  \/ ParseLoop /\ UNCHANGED evars
  \/ ParseReturn /\ UNCHANGED evars

Spec == Init /\ [][Next]_vars

EvalNext ==
  \/ EvalTimes /\ UNCHANGED pvars
  \/ EvalLess /\ UNCHANGED pvars

EvalInit == PIdle /\ EInit

EvalSpec == EvalInit /\ [][EvalNext]_vars

(***************************************************************************)
(* Properties of the parser.                                               *)
(***************************************************************************)
Stream(body) == Append(body, Tok("EOF"))
Parsed(body) == pc = "done" /\ Len(input) = Len(body) + 1 /\ input = Stream(body)

\* the number of tokens of `a t1 b t2 c` and of `a t b`
ChainLen == Len(Chain(<<ident("a"), ident("b"), ident("c")>>, "PLUS", "PLUS"))
PairLen == Len(Pair(<<ident("a"), ident("b")>>, "PLUS"))

\* the node variant each infix parser builds
Variant ==
  [ EQ |-> "Equals", NOT_EQ |-> "NotEquals", LT |-> "Less", GT |-> "Greater",
    LT_EQ |-> "LessEq", GT_EQ |-> "GreaterEq", AND |-> "And", OR |-> "Or",
    PLUS |-> "Plus", MINUS |-> "Minus", SLASH |-> "Divide",
    ASTERISK |-> "Times", POWER |-> "Power", ASSIGN |-> "Assign",
    PLUS_ASSIGN |-> "PlusAssign", MINUS_ASSIGN |-> "MinusAssign",
    SLASH_ASSIGN |-> "DivideAssign", ASTERISK_ASSIGN |-> "TimesAssign",
    LPAREN |-> "Call", LBRACKET |-> "Index" ]

\* the operators with a binary node: those with an infix parser, but for the
\* call `(` and the index `[`
BinaryOps == infixParsers \ {"LPAREN", "LBRACKET"}

\* the leaf an operand token parses to
Leaf(i) == IF Is(i, "IDENT") THEN NewIdentifier(i.Val) ELSE NewInteger(ParseInt(i.Val).i)

LeftTree(o, t1, t2) ==
  Binary(Variant[t2], Binary(Variant[t1], Leaf(o[1]), Leaf(o[2])), Leaf(o[3]))
RightTree(o, t1, t2) ==
  Binary(Variant[t1], Leaf(o[1]), Binary(Variant[t2], Leaf(o[2]), Leaf(o[3])))

ParsesLeftAssoc(o, t) ==
  Parsed(Chain(o, t, t)) => p.errs = <<>> /\ block.stmts = <<LeftTree(o, t, t)>>

\* C1 as stated: for every token kind t of the precedence table, `a t b t c`
\* parses without error to the one statement ((a t b) t c)
C1_EveryPrecedenceKind ==
  (pc = "done" /\ Len(input) = ChainLen + 1) =>
    \A o \in Operands : \A t \in DOMAIN precedences : ParsesLeftAssoc(o, t)

\* C1 amended: for every token kind t of the precedence table that has a
\* binary infix parser (all but `**`, `(` and `[`), `a t b t c` parses
\* without error to the one statement ((a t b) t c)
C1_LeftAssociative ==
  (pc = "done" /\ Len(input) = ChainLen + 1) =>
    \A o \in Operands : \A t \in BinaryOps : ParsesLeftAssoc(o, t)

C1_Witness ==
  \E o \in Operands :
    /\ Parsed(Chain(o, "ASSIGN", "ASSIGN"))
    /\ block.stmts = <<LeftTree(o, "ASSIGN", "ASSIGN")>>
    /\ p.errs = <<>>

\* C2: for binary operators t1, t2 with t1 strictly lower on the ladder,
\* `a t1 b t2 c` parses as (a t1 (b t2 c)) and `a t2 b t1 c` as
\* ((a t2 b) t1 c); `1 + 2 * 3` parses as (1 + (2 * 3))
C2_PrecedenceClimbing ==
  (pc = "done" /\ Len(input) = ChainLen + 1) =>
    LET t1 == input[2].Typ
        t2 == input[4].Typ
    IN \A o \in Operands :
         (t1 \in BinaryOps /\ t2 \in BinaryOps /\ Parsed(Chain(o, t1, t2))) =>
           /\ precedences[t1] < precedences[t2] =>
                block.stmts = <<RightTree(o, t1, t2)>>
           /\ precedences[t2] < precedences[t1] =>
                block.stmts = <<LeftTree(o, t1, t2)>>

C2_Witness ==
  /\ Parsed(<<int("1"), Tok("PLUS"), int("2"), Tok("ASTERISK"), int("3")>>)
  /\ block.stmts =
       <<Binary("Plus", NewInteger(1), NewTimes(NewInteger(2), NewInteger(3)))>>

\* C3: the parser performs no receive on the channel after it has received
\* the EOF token, the last token of the stream
C3_NoReceiveAfterEOF == p.nrecv <= Len(input)

\* C4: the loop of parse() observes the EOF of the stream as the current
\* token and never steps past it: p.cur is never a token received after EOF
C4_LoopNeverPassesEOF == pc \in {"loop", "done"} => p.nrecv - 1 <= Len(input)

\* a nil node in a required child slot of the tree n
RECURSIVE HasNull(_)
HasNull(n) ==
  CASE n.kind \in {"PrefixMinus", "Bang", "Return"} -> IsNil(n.x) \/ HasNull(n.x)
    [] n.kind = "If" ->
         IsNil(n.cond) \/ HasNull(n.cond) \/ HasNull(n.body) \/ HasNull(n.alt)
    [] n.kind = "Function" -> HasNull(n.body)
    [] n.kind = "Call" ->
         HasNull(n.fn) \/ \E k \in 1..Len(n.args) : IsNil(n.args[k]) \/ HasNull(n.args[k])
    [] n.kind = "List" ->
         \E k \in 1..Len(n.elems) : IsNil(n.elems[k]) \/ HasNull(n.elems[k])
    [] n.kind = "Index" ->
         IsNil(n.list) \/ IsNil(n.index) \/ HasNull(n.list) \/ HasNull(n.index)
    [] n.kind = "Block" -> \E k \in 1..Len(n.stmts) : HasNull(n.stmts[k])
    [] n.kind \in {"nil", "Identifier", "Integer", "Float", "String", "Boolean"} -> FALSE
    [] OTHER -> IsNil(n.l) \/ IsNil(n.r) \/ HasNull(n.l) \/ HasNull(n.r)

\* C5: a nil node in a required child slot of the tree implies that the
\* error list is not empty
C5_NullImpliesError == HasNull(block) => p.errs # <<>>

C5_Witness == pc = "done" /\ HasNull(block) /\ p.errs # <<>>

\* C9: `a ** b` ends the expression a at `**`, records the 'no parse prefix
\* function' error for `**`, builds no node of a and b, and goes on with b
\* as a statement of its own
C9_PowerIsParseError ==
  (pc = "done" /\ Len(input) = PairLen + 1) =>
    \A o \in Operands :
      Parsed(Pair(o, "POWER")) =>
        /\ block.stmts = <<Leaf(o[1]), Leaf(o[2])>>
        /\ p.errs = <<Sprintf("no parse prefix function for '%s' found", <<"POWER">>)>>

C9_Witness ==
  /\ Parsed(<<ident("a"), Tok("POWER"), ident("b")>>)
  /\ block.stmts = <<NewIdentifier("a"), NewIdentifier("b")>>
  /\ Len(p.errs) = 1

\* C10: an infix operator that comes after a `;` is never applied to the
\* expression parsed before that `;`; `1 + 2; - 3` yields the two statements
\* (1 + 2) and (-3)
C10_SemicolonEndsStatement ==
  /\ ~p.semi
  /\ Parsed(<<int("1"), Tok("PLUS"), int("2"), Tok("SEMICOLON"), Tok("MINUS"),
              int("3")>>) =>
       block.stmts = << Binary("Plus", NewInteger(1), NewInteger(2)),
                        NewPrefixMinus(NewInteger(3)) >>

(***************************************************************************)
(* Properties of Times.Eval and Less.Eval.                                 *)
(***************************************************************************)
Evaluated == epc = "done"
\* what the operands evaluate to, left to right
LeftEv == Eval(node.l, env0)
RightEv == Eval(node.r, LeftEv.env)

\* C6: when the left operand evaluates to an Error the right operand is not
\* evaluated: the environment is the one the left operand left behind
C6_RightNotEvaluated ==
  (Evaluated /\ isError(LeftEv.val)) => result.env = LeftEv.env

\* C7: if an operand evaluates to an Error, the value of the node is the
\* Error of the leftmost such operand, unchanged
C7_LeftmostError ==
  Evaluated =>
    /\ isError(LeftEv.val) => result.val = LeftEv.val
    /\ (~isError(LeftEv.val) /\ isError(RightEv.val)) => result.val = RightEv.val

C7_Witness ==
  /\ Evaluated
  /\ isError(LeftEv.val) /\ isError(RightEv.val)
  /\ LeftEv.val # RightEv.val
  /\ result.val = LeftEv.val

MismatchFmt ==
  IF node.kind = "Times"
  THEN "invalid operation %v * %v (mismatched types %v and %v)"
  ELSE "invalid operation %v < %v (mismatched types %v and %v)"
UnsupportedFmt ==
  IF node.kind = "Times" THEN "unsupported operator '*' for type %v"
  ELSE "unsupported operator '<' for type %v"

\* C8: for two operands that are not Errors: different kinds give the
\* 'mismatched types' Error; two Integers or two Floats give an Integer or
\* Float for Times and a Boolean for Less; two operands of another same kind
\* give the 'unsupported operator' Error; the result is never nil
C8_TypeDispatch ==
  (Evaluated /\ ~isError(LeftEv.val) /\ ~isError(RightEv.val)) =>
    LET lt == Type(LeftEv.val)
        rt == Type(RightEv.val)
    IN /\ ~IsNil(result.val)
       /\ lt # rt =>
            /\ isError(result.val)
            /\ result.val.fmt = MismatchFmt
            /\ result.val.args = [l |-> LeftEv.val, r |-> RightEv.val, lt |-> lt, rt |-> rt]
       /\ (lt = rt /\ lt \in {"INT", "FLOAT"}) =>
            Type(result.val) = IF node.kind = "Times" THEN lt ELSE "BOOL"
       /\ (lt = rt /\ lt \notin {"INT", "FLOAT"}) =>
            /\ isError(result.val)
            /\ result.val.fmt = UnsupportedFmt
            /\ result.val.args = [t |-> lt]
       /\ (node = NewTimes(Const(obj_NewInteger(I64_2)), Const(obj_NewInteger(I64_3)))) =>
            result.val = obj_NewInteger(I64_6)
       /\ (node = NewLess(Const(obj_NewInteger(I64_m1)), Const(obj_NewInteger(I64_2)))) =>
            result.val = obj_True

C8_Witness ==
  /\ Evaluated
  /\ node = NewLess(Const(obj_NewInteger(I64_2)), Const(obj_NewFloat(Flt(3, -1))))
  /\ isError(result.val)
  /\ result.val.fmt = MismatchFmt

====
